---- MODULE Spec2Model ----
(***************************************************************************)
(* The money bot of pkulak/bots (src/bots/money.rs): a SQLite transaction  *)
(* log with derived balances, per-account minimum balances, chat command   *)
(* handlers that run under one mutex, and the weekly allowance task; and   *)
(* the chat contexts of the ai bot (src/ai.rs), one list of messages for   *)
(* each room under one mutex.                                              *)
(*                                                                         *)
(* Money is counted in minor units (cents), as the store keeps it.  Time   *)
(* is counted in milliseconds, as manage_allowance reads it, from a Monday *)
(* 00:00:00 of Pacific standard time; the Pacific clock goes one hour      *)
(* ahead at DstStart.                                                      *)
(***************************************************************************)
EXTENDS Integers, Sequences, FiniteSets, TLC

VARIABLES
    db,          \* the database file: "absent", "empty", "tx" or "ready"
    log,         \* rows of table transactions, in id order
    users,       \* rows of table users: [user_id, min_balance]
    proc,        \* "down" or "up": the bot process
    env,         \* the CHASE and CHARLIE environment values
    now,         \* the clock, in milliseconds
    lockHolder,  \* who holds the Mutex<Bot>: "worker", "sched" or "none"
    poisoned,    \* the Mutex<Bot> is poisoned
    wpc,         \* per worker: "idle", "insert" or "reply"
    wcmd,        \* per worker: the command it handles
    wreply,      \* per worker: the reply it sends
    spc,         \* the allowance task's position
    wakeAt,      \* the instant the allowance task's sleep ends
    ALL_CONTEXT, \* ai.rs: the messages of each room that has a context
    calls        \* ai.rs: per call of chat, its position and its room

vars == <<db, log, users, proc, env, now, lockHolder, poisoned,
          wpc, wcmd, wreply, spc, wakeAt, ALL_CONTEXT, calls>>

\* the variables of the ai bot, which the money bot does not touch
aiVars == <<ALL_CONTEXT, calls>>

\* the variables of the money bot, which the ai bot does not touch
moneyVars == <<db, log, users, proc, env, now, lockHolder, poisoned,
               wpc, wcmd, wreply, spc, wakeAt>>

----------------------------------------------------------------------------
(* Accounts and identity (src/matrix.rs) *)

Phil    == "@phil:kulak.us"
Gwen    == "@gwen:kulak.us"
Chase   == "@chase:kulak.us"
Charlie == "@charlie:kulak.us"
Zoe     == "@zoe:kulak.us"

Accounts == {Phil, Gwen, Chase, Charlie, Zoe}

\* Option::None and SQL NULL
NoneV == "None"
\* the Err of a Result
ErrV == "Err"

\* SAVINGS holds "@charlie-savings@kulak.us": no UserId has this text, its
\* server name is introduced by ':'
SAVINGS == {"@charlie-savings@kulak.us"}

\* create_user_id: the aliases, then a localpart completed with the server
\* name; text that is no user id is an Err
create_user_id(id) ==
    CASE id = "dad"     -> Phil
      [] id = "mom"     -> Gwen
      [] id = "chase"   -> Chase
      [] id = "charlie" -> Charlie
      [] id = "zoe"     -> Zoe
      [] OTHER          -> ErrV

\* normalize_sender: the account named in the command, or the sender
normalize_sender(sender, command) ==
    IF command # "" THEN create_user_id(command) ELSE sender

is_admin(user_id) == user_id = Phil \/ user_id = Gwen

----------------------------------------------------------------------------
(* The store (Bot::init, Bot::insert and the queries) *)

SeedAmount == 100000

Transaction(sender, receiver, amount, date, memo) ==
    [sender |-> sender, receiver |-> receiver, amount |-> amount,
     date |-> date, memo |-> memo]

\* the two seed transactions of Bot::init
SeedGwen(t) == Transaction(NoneV, Gwen, SeedAmount, t, "seed value")
SeedPhil(t) == Transaction(NoneV, Phil, SeedAmount, t, "seed value")

\* Bot::init runs six statements: CREATE TABLE transactions, two CREATE
\* INDEX, CREATE TABLE users, and the two seed inserts.  Each commits on its
\* own; InitDb(k) and InitLog(k, t) are the file after the first k of them.
InitStatements == 6

InitDb(k) == IF k = 0 THEN "empty" ELSE IF k < 4 THEN "tx" ELSE "ready"

InitLog(k, t) ==
    IF k < 5 THEN << >>
    ELSE IF k = 5 THEN <<SeedGwen(t)>>
    ELSE <<SeedGwen(t), SeedPhil(t)>>

\* db_created of Bot::new: the file did not exist before Connection::open
db_created(d) == d = "absent"

\* a statement on table transactions / users needs the table
HasTransactions(d) == d \in {"tx", "ready"}
HasUsers(d)        == d = "ready"

RECURSIVE SumSeq(_)
SumSeq(s) == IF s = << >> THEN 0 ELSE Head(s) + SumSeq(Tail(s))

\* SUM(amount) over the selected rows.  A nullable number is a set of at most
\* one number: SUM over no row is NULL, the empty set
SumAmount(rows) ==
    IF rows = << >> THEN {}
    ELSE {SumSeq([i \in 1..Len(rows) |-> rows[i].amount])}

COALESCE(x, y) == IF x = {} THEN y ELSE CHOOSE v \in x : TRUE

\* Bot::get_balance with the two sums exchanged
get_balance_swapped(l, user_id) ==
    LET IsSender(t)   == t.sender = user_id
        IsReceiver(t) == t.receiver = user_id
    IN  COALESCE(SumAmount(SelectSeq(l, IsSender)), 0)
            - COALESCE(SumAmount(SelectSeq(l, IsReceiver)), 0)

\* Bot::get_balance: received - sent
get_balance(l, user_id) ==
    LET IsSender(t)   == t.sender = user_id
        IsReceiver(t) == t.receiver = user_id
        sent          == COALESCE(SumAmount(SelectSeq(l, IsSender)), 0)
        received      == COALESCE(SumAmount(SelectSeq(l, IsReceiver)), 0)
    IN  received - sent

\* a row of table users
User(user_id, min_balance) == [user_id |-> user_id, min_balance |-> min_balance]

\* SUM(min_balance) over a set of rows of users, NULL (the empty set) over
\* no row
RECURSIVE SumMin(_)
SumMin(rows) ==
    IF rows = {} THEN {}
    ELSE LET r == CHOOSE x \in rows : TRUE
         IN  {r.min_balance + COALESCE(SumMin(rows \ {r}), 0)}

\* Bot::get_min_balance: COALESCE(SUM(min_balance), 0) WHERE user_id = ?1
get_min_balance(u, user_id) ==
    COALESCE(SumMin({r \in u : r.user_id = user_id}), 0)

\* Bot::set_min_balance with ON CONFLICT(user_id) DO NOTHING
set_min_balance_keep(u, user_id, min_balance) ==
    IF \E r \in u : r.user_id = user_id THEN u
    ELSE u \cup {User(user_id, min_balance)}

\* Bot::set_min_balance with DO UPDATE SET min_balance = min_balance + ?2
set_min_balance_adding(u, user_id, min_balance) ==
    IF \E r \in u : r.user_id = user_id
    THEN {IF r.user_id = user_id
          THEN User(user_id, r.min_balance + min_balance) ELSE r : r \in u}
    ELSE u \cup {User(user_id, min_balance)}

\* Bot::set_min_balance: INSERT ... ON CONFLICT(user_id) DO UPDATE SET
\* min_balance = ?2, user_id being the PRIMARY KEY of users
set_min_balance(u, user_id, min_balance) ==
    IF \E r \in u : r.user_id = user_id
    THEN {IF r.user_id = user_id THEN User(user_id, min_balance) ELSE r :
             r \in u}
    ELSE u \cup {User(user_id, min_balance)}

\* Bot::id_exists
id_exists(l, user_id) ==
    \/ user_id \in SAVINGS
    \/ \E i \in 1..Len(l) : l[i].sender = user_id \/ l[i].receiver = user_id

\* LIMIT 5 of Bot::get_ledger
LedgerLimit == 5

\* the ids of the rows with receiver = ?1 OR sender = ?1
Touching(l, user_id) ==
    {i \in 1..Len(l) : l[i].receiver = user_id \/ l[i].sender = user_id}

\* ORDER BY date DESC: every order of the ids in ids by falling date.  SQL
\* leaves the order of rows of equal date open, so there may be several.
RECURSIVE DateDesc(_, _)
DateDesc(l, ids) ==
    IF ids = {} THEN {<< >>}
    ELSE LET newest == {i \in ids : \A j \in ids : l[j].date <= l[i].date}
         IN  UNION {{<<i>> \o rest : rest \in DateDesc(l, ids \ {i})} :
                    i \in newest}

\* Bot::get_ledger: the results the query may give
get_ledger(l, user_id) ==
    {[k \in 1..(IF Len(o) < LedgerLimit THEN Len(o) ELSE LedgerLimit) |-> l[o[k]]] :
        o \in DateDesc(l, Touching(l, user_id))}

----------------------------------------------------------------------------
(* The command handlers (Bot::on_room_message and what it calls) *)

\* What a handler has come to: a chat reply it sends, a row it is about to
\* insert ("commit"), an Err it returns or a panic.
Outcome(kind) == [kind |-> kind, value |-> 0, rows |-> << >>]
OutcomeValue(kind, v) == [kind |-> kind, value |-> v, rows |-> << >>]
OutcomeRows(kind, r) == [kind |-> kind, value |-> 0, rows |-> r]

Failed(o) == o.kind \in {"error", "panic"}

\* Bot::on_balance_message
on_balance_message(d, l, sender, command) ==
    LET user_id == normalize_sender(sender, command.arg)
    IN  IF user_id = ErrV THEN Outcome("error")
        ELSE IF ~HasTransactions(d) THEN Outcome("error")
        ELSE OutcomeValue("balance", get_balance(l, user_id))

\* Bot::on_send_message comparing the balance left with zero, not the floor
on_send_message_no_floor(d, l, u, sender, command) ==
    LET receiver == create_user_id(command.arg)
        amount   == command.amount
    IN  IF receiver = ErrV THEN Outcome("error")
        ELSE IF amount < 0 /\ ~is_admin(sender) THEN Outcome("no_take")
        ELSE IF amount = 0 THEN Outcome("zero")
        ELSE IF ~HasTransactions(d) \/ ~HasUsers(d) THEN Outcome("error")
        ELSE IF get_balance(l, sender) - amount < 0
             THEN Outcome("insufficient")
        ELSE IF ~id_exists(l, receiver) /\ ~is_admin(sender)
             THEN Outcome("invalid_user")
        ELSE IF sender = receiver THEN Outcome("self")
        ELSE Outcome("commit")

\* Bot::on_send_message without the check of sender == receiver
on_send_message_no_self(d, l, u, sender, command) ==
    LET receiver == create_user_id(command.arg)
        amount   == command.amount
    IN  IF receiver = ErrV THEN Outcome("error")
        ELSE IF amount < 0 /\ ~is_admin(sender) THEN Outcome("no_take")
        ELSE IF amount = 0 THEN Outcome("zero")
        ELSE IF ~HasTransactions(d) \/ ~HasUsers(d) THEN Outcome("error")
        ELSE IF get_balance(l, sender) - amount < get_min_balance(u, sender)
             THEN Outcome("insufficient")
        ELSE IF ~id_exists(l, receiver) /\ ~is_admin(sender)
             THEN Outcome("invalid_user")
        ELSE Outcome("commit")

\* Bot::on_send_message without the check of id_exists
on_send_message_no_unknown(d, l, u, sender, command) ==
    LET receiver == create_user_id(command.arg)
        amount   == command.amount
    IN  IF receiver = ErrV THEN Outcome("error")
        ELSE IF amount < 0 /\ ~is_admin(sender) THEN Outcome("no_take")
        ELSE IF amount = 0 THEN Outcome("zero")
        ELSE IF ~HasTransactions(d) \/ ~HasUsers(d) THEN Outcome("error")
        ELSE IF get_balance(l, sender) - amount < get_min_balance(u, sender)
             THEN Outcome("insufficient")
        ELSE IF sender = receiver THEN Outcome("self")
        ELSE Outcome("commit")

\* Bot::on_send_message without the check of a negative amount
on_send_message_no_sign(d, l, u, sender, command) ==
    LET receiver == create_user_id(command.arg)
        amount   == command.amount
    IN  IF receiver = ErrV THEN Outcome("error")
        ELSE IF amount = 0 THEN Outcome("zero")
        ELSE IF ~HasTransactions(d) \/ ~HasUsers(d) THEN Outcome("error")
        ELSE IF get_balance(l, sender) - amount < get_min_balance(u, sender)
             THEN Outcome("insufficient")
        ELSE IF ~id_exists(l, receiver) /\ ~is_admin(sender)
             THEN Outcome("invalid_user")
        ELSE IF sender = receiver THEN Outcome("self")
        ELSE Outcome("commit")

\* Bot::on_send_message comparing the balance left with the floor by <=
on_send_message_exclusive(d, l, u, sender, command) ==
    LET receiver == create_user_id(command.arg)
        amount   == command.amount
    IN  IF receiver = ErrV THEN Outcome("error")
        ELSE IF amount < 0 /\ ~is_admin(sender) THEN Outcome("no_take")
        ELSE IF amount = 0 THEN Outcome("zero")
        ELSE IF ~HasTransactions(d) \/ ~HasUsers(d) THEN Outcome("error")
        ELSE IF get_balance(l, sender) - amount <= get_min_balance(u, sender)
             THEN Outcome("insufficient")
        ELSE IF ~id_exists(l, receiver) /\ ~is_admin(sender)
             THEN Outcome("invalid_user")
        ELSE IF sender = receiver THEN Outcome("self")
        ELSE Outcome("commit")

\* Bot::on_send_message up to the insert, the checks in the order of the code
on_send_message(d, l, u, sender, command) ==
    LET receiver == create_user_id(command.arg)
        amount   == command.amount
    IN  IF receiver = ErrV THEN Outcome("error")
        ELSE IF amount < 0 /\ ~is_admin(sender) THEN Outcome("no_take")
        ELSE IF amount = 0 THEN Outcome("zero")
        ELSE IF ~HasTransactions(d) \/ ~HasUsers(d) THEN Outcome("error")
        ELSE IF get_balance(l, sender) - amount < get_min_balance(u, sender)
             THEN Outcome("insufficient")
        ELSE IF ~id_exists(l, receiver) /\ ~is_admin(sender)
             THEN Outcome("invalid_user")
        ELSE IF sender = receiver THEN Outcome("self")
        ELSE Outcome("commit")

\* the row of on_send_message without its sender: the amount is given to the
\* receiver and taken from nobody
SendRowUnsent(sender, command, t) ==
    Transaction(NoneV, create_user_id(command.arg), command.amount, t,
                command.memo)

\* the row of on_send_message storing the size of the amount without its
\* sign
SendRowAbs(sender, command, t) ==
    Transaction(sender, create_user_id(command.arg),
                IF command.amount < 0 THEN -command.amount ELSE command.amount,
                t, command.memo)

\* the row of on_send_message with sender and receiver the other way round
SendRowSwapped(sender, command, t) ==
    Transaction(create_user_id(command.arg), sender, command.amount, t,
                command.memo)

\* the row on_send_message inserts, dated at the insert
SendRow(sender, command, t) ==
    Transaction(sender, create_user_id(command.arg), command.amount, t,
                command.memo)

\* Bot::on_set_min_balance_message without the check of is_admin
on_set_min_balance_message_any(d, sender, command) ==
    IF create_user_id(command.arg) = ErrV THEN Outcome("error")
    ELSE IF ~HasUsers(d) THEN Outcome("error")
    ELSE OutcomeValue("set_min", command.amount)

\* Bot::on_set_min_balance_message up to the upsert
on_set_min_balance_message(d, sender, command) ==
    IF ~is_admin(sender) THEN Outcome("not_allowed")
    ELSE IF create_user_id(command.arg) = ErrV THEN Outcome("error")
    ELSE IF ~HasUsers(d) THEN Outcome("error")
    ELSE OutcomeValue("set_min", command.amount)

\* Bot::on_get_min_balance_message writing the floor it has read back to
\* table users, which makes a row for an account that has none
on_get_min_balance_message_storing(d, u, command) ==
    LET user_id == create_user_id(command.arg)
    IN  IF user_id = ErrV THEN Outcome("error")
        ELSE IF ~HasUsers(d) THEN Outcome("error")
        ELSE OutcomeValue("set_min", get_min_balance(u, user_id))

\* Bot::on_get_min_balance_message
on_get_min_balance_message(d, u, command) ==
    LET user_id == create_user_id(command.arg)
    IN  IF user_id = ErrV THEN Outcome("error")
        ELSE IF ~HasUsers(d) THEN Outcome("error")
        ELSE OutcomeValue("min", get_min_balance(u, user_id))

\* the account a ledger command is about: the sender for "plain"
LedgerUser(sender, command) ==
    IF command.arg = "plain" THEN sender
    ELSE normalize_sender(sender, command.arg)

\* the map of on_ledger_message taking the amount off before the row is made
RECURSIVE BalanceRowsAfter(_, _, _)
BalanceRowsAfter(rows, user_id, running_balance) ==
    IF rows = << >> THEN << >>
    ELSE LET tr     == Head(rows)
             mine   == tr.receiver = user_id
             user   == IF mine THEN tr.sender ELSE tr.receiver
             amount == IF mine THEN tr.amount ELSE -tr.amount
         IN  <<[balance |-> running_balance - amount, user |-> user,
                amount |-> amount, date |-> tr.date, memo |-> tr.memo]>>
             \o BalanceRowsAfter(Tail(rows), user_id, running_balance - amount)

\* the map of on_ledger_message adding the amount to the running balance
RECURSIVE BalanceRowsAdding(_, _, _)
BalanceRowsAdding(rows, user_id, running_balance) ==
    IF rows = << >> THEN << >>
    ELSE LET tr     == Head(rows)
             mine   == tr.receiver = user_id
             user   == IF mine THEN tr.sender ELSE tr.receiver
             amount == IF mine THEN tr.amount ELSE -tr.amount
         IN  <<[balance |-> running_balance, user |-> user, amount |-> amount,
                date |-> tr.date, memo |-> tr.memo]>>
             \o BalanceRowsAdding(Tail(rows), user_id, running_balance + amount)

\* the map of on_ledger_message over the rows of get_ledger: each row shows
\* the running balance, which the row's signed amount is then taken from
RECURSIVE BalanceRows(_, _, _)
BalanceRows(rows, user_id, running_balance) ==
    IF rows = << >> THEN << >>
    ELSE LET tr     == Head(rows)
             mine   == tr.receiver = user_id
             user   == IF mine THEN tr.sender ELSE tr.receiver
             amount == IF mine THEN tr.amount ELSE -tr.amount
         IN  <<[balance |-> running_balance, user |-> user, amount |-> amount,
                date |-> tr.date, memo |-> tr.memo]>>
             \o BalanceRows(Tail(rows), user_id, running_balance - amount)

\* Bot::on_ledger_message for one result of get_ledger.  The text of a row
\* unwraps the row's counterparty.
on_ledger_message(d, l, sender, command, rows) ==
    LET user_id == LedgerUser(sender, command)
    IN  IF user_id = ErrV THEN Outcome("error")
        ELSE IF ~HasTransactions(d) THEN Outcome("error")
        ELSE LET ledger == BalanceRows(rows, user_id, get_balance(l, user_id))
             IN  IF \E i \in 1..Len(ledger) : ledger[i].user = NoneV
                 THEN Outcome("panic")
                 ELSE OutcomeRows("ledger", ledger)

----------------------------------------------------------------------------
(* The allowance task's calendar (manage_allowance) *)

\* timestamp_millis: an instant is a number of milliseconds
Second == 1000
Hour == 60 * 60 * Second
Day  == 24 * Hour
Week == 7 * Day

\* US::Pacific: at DstStart, 02:00 of the first Sunday, the local clock
\* goes from standard time to daylight time, one hour ahead
DstStart == 6 * Day + 2 * Hour

\* TimeZone::from_utc_datetime: the local reading of the clock at instant t
naive_local(t) == IF t < DstStart THEN t ELSE t + Hour

\* TimeZone::from_local_datetime: the instant at which the local clock reads
\* l (no l of the model lies in the hour the clock skips)
from_local_datetime(l) == IF l < DstStart THEN l ELSE l - Hour

\* Weekday::number_from_monday of the local day of t
number_from_monday(t) == ((naive_local(t) \div Day) % 7) + 1

\* now.with_hour(9).with_minute(0).with_second(0): the local day of t at
\* 09:00:00, with the part of t below the second, which is kept
morning(t) ==
    from_local_datetime((naive_local(t) \div Day) * Day + 9 * Hour
                            + (naive_local(t) % Second))

\* next_friday of manage_allowance without the step to the week after
next_friday_no_roll(t) ==
    morning(t) + (5 - number_from_monday(morning(t))) * Day

\* next_friday of manage_allowance: days are added as spans of 24 hours
next_friday(t) ==
    LET friday == morning(t) + (5 - number_from_monday(morning(t))) * Day
    IN  IF friday < t THEN friday + Week ELSE friday

\* the wait before the disbursement
duration(t) == next_friday(t) - t

\* Duration::minutes(1), the sleep after the announcement
BufferSleep == 60 * Second

\* the row Bot::send inserts
AllowanceRow(to, amount, t) == Transaction(Phil, to, amount, t, "allowance")

----------------------------------------------------------------------------
(* The chat contexts of the ai bot (src/ai.rs).  Each of get_context,
   record_response and cleanup_context takes the mutex of ALL_CONTEXT for
   its whole body, so each is one step on the map. *)

Message(role, content) == [role |-> role, content |-> content]

\* the message or_insert puts first into the context of a new room
DeveloperMessage ==
    Message("developer",
            "Respond as concisely as possible, unless asked to expand.")

\* HashMap::new()
NoContext == [r \in {} |-> << >>]

\* get_context: the map after the call (the clone it returns is the room's
\* list in that map)
get_context(context, room, prompt) ==
    LET messages == IF room \in DOMAIN context THEN context[room]
                    ELSE <<DeveloperMessage>>
    IN  [r \in DOMAIN context \cup {room} |->
            IF r = room THEN Append(messages, Message("user", prompt))
            ELSE context[r]]

\* record_response
record_response(context, room, response) ==
    IF room \notin DOMAIN context THEN context
    ELSE [context EXCEPT ![room] = Append(@, Message("assistant", response))]

\* the bound of the loop of cleanup_context
ContextLimit == 10

\* Vec::remove(index), with index counted from 0
remove(messages, index) ==
    SubSeq(messages, 1, index) \o SubSeq(messages, index + 2, Len(messages))

\* the loop of cleanup_context
RECURSIVE TrimContext(_, _)
TrimContext(messages, index) ==
    IF Len(messages) > ContextLimit
    THEN TrimContext(remove(messages, index), index)
    ELSE messages

\* cleanup_context removing the oldest message of the list, at index 0
cleanup_context_front(context, room) ==
    IF room \notin DOMAIN context THEN context
    ELSE [context EXCEPT ![room] = TrimContext(@, 0)]

\* cleanup_context
cleanup_context(context, room) ==
    IF room \notin DOMAIN context THEN context
    ELSE [context EXCEPT ![room] = TrimContext(@, 1)]

----------------------------------------------------------------------------
(* Bounds and inputs *)

\* calls of chat that may be in progress at once
NumCallers == 3

\* get_context is followed up to this length of a room's list
MaxContext == 12

Callers == 1..NumCallers

Rooms == {"!family"}

Prompts == {"hello"}

Responses == {"hi"}

NoCall == [pc |-> "idle", room |-> ""]

NumWorkers == 2
MaxLog     == 5
MaxLatency == 1
MaxWeeks   == 1

Workers == 1..NumWorkers

Command(kind, arg, amount, memo) ==
    [kind |-> kind, arg |-> arg, amount |-> amount, memo |-> memo]

\* the chat messages of the program's run, each a sender and a command: the
\* privileged Phil sends with a memo, sets a floor and asks for his ledger;
\* Chase sends back, sends nothing, names no user id, and asks for a
\* balance, a floor and his ledger
Requests ==
    {<<Phil,  Command("send", "chase", 5000, "rent")>>,
     <<Phil,  Command("set min", "chase", 5, NoneV)>>,
     <<Phil,  Command("ledger", "", 0, NoneV)>>,
     <<Chase, Command("send", "dad", 5000, NoneV)>>,
     <<Chase, Command("send", "dad", 0, NoneV)>>,
     <<Chase, Command("send", "b@d", 5000, NoneV)>>,
     <<Chase, Command("balance", "dad", 0, NoneV)>>,
     <<Chase, Command("get min", "chase", 0, NoneV)>>,
     <<Chase, Command("ledger", "plain", 0, NoneV)>>}

\* the values CHASE and CHARLIE may hold
EnvConfigs == {[chase |-> 500, charlie |-> 700], [chase |-> 0, charlie |-> 700]}

\* the instant the first process starts at: a Thursday noon
StartInstants == {3 * Day + 12 * Hour}

\* the clock is followed to the end of week MaxWeeks
MaxTime == MaxWeeks * Week

NoCommand == [kind |-> "none", sender |-> NoneV, arg |-> "", amount |-> 0,
              memo |-> NoneV]
NoOutcome == Outcome("none")

----------------------------------------------------------------------------
(* The process: Bot::new at its start, and its end *)

Init ==
    /\ db = "absent"
    /\ log = << >>
    /\ users = {}
    /\ proc = "down"
    /\ env \in EnvConfigs
    /\ now \in StartInstants
    /\ lockHolder = "none"
    /\ poisoned = FALSE
    /\ wpc = [w \in Workers |-> "idle"]
    /\ wcmd = [w \in Workers |-> NoCommand]
    /\ wreply = [w \in Workers |-> NoOutcome]
    /\ spc = "off"
    /\ wakeAt = 0
    /\ ALL_CONTEXT = NoContext
    /\ calls = [c \in Callers |-> NoCall]

\* the state of a process that has just started: no handler runs, the lock
\* is free, the allowance task is at the top of its loop
Fresh ==
    /\ lockHolder' = "none"
    /\ poisoned' = FALSE
    /\ wpc' = [w \in Workers |-> "idle"]
    /\ wcmd' = [w \in Workers |-> NoCommand]
    /\ wreply' = [w \in Workers |-> NoOutcome]
    /\ wakeAt' = 0

\* Bot::new, every start running init whatever the file holds
BotNewReseed(k) ==
    /\ proc = "down"
    /\ db' = "ready"
    /\ log' = log \o InitLog(InitStatements, now)
    /\ proc' = "up"
    /\ spc' = "compute"
    /\ Fresh
    /\ UNCHANGED <<users, env, now>>
    /\ UNCHANGED aiVars

\* Bot::new: open the file, and run init when the file was not there; k of
\* init's statements succeed.  With all of them the process is up.
BotNew(k) ==
    /\ proc = "down"
    /\ IF db_created(db)
       THEN /\ db' = InitDb(k)
            /\ log' = InitLog(k, now)
            /\ proc' = IF k = InitStatements THEN "up" ELSE "down"
            /\ spc' = IF k = InitStatements THEN "compute" ELSE "off"
       ELSE /\ k = InitStatements
            /\ UNCHANGED <<db, log>>
            /\ proc' = "up"
            /\ spc' = "compute"
    /\ Fresh
    /\ UNCHANGED <<users, env, now>>
    /\ UNCHANGED aiVars

\* the process ends (it is stopped, or it crashes)
Shutdown ==
    /\ proc = "up"
    /\ proc' = "down"
    /\ spc' = "off"
    /\ Fresh
    /\ UNCHANGED <<db, log, users, env, now>>
    /\ UNCHANGED aiVars

----------------------------------------------------------------------------
(* The Mutex<Bot> *)

\* bot.lock().unwrap() returns: the mutex is free and not poisoned
LockUnguarded(who) == ~poisoned

LockFree(who) == lockHolder = "none" /\ ~poisoned

----------------------------------------------------------------------------
(* A command worker: the task of spawn_blocking for one chat message.  It
   takes the lock, runs the handler and lets the lock go at the end of the
   statement, after the reply; an Err of the handler panics in expect while
   the lock is held, which poisons the mutex. *)

\* Bot::on_room_message: what the handler comes to before its first write or
\* its reply
HandlerOutcomes(sender, command) ==
    CASE command.kind = "balance" ->
            {on_balance_message(db, log, sender, command)}
      [] command.kind = "send" ->
            {on_send_message(db, log, users, sender, command)}
      [] command.kind = "set min" ->
            {on_set_min_balance_message(db, sender, command)}
      [] command.kind = "get min" ->
            {on_get_min_balance_message(db, users, command)}
      [] command.kind = "ledger" ->
            {on_ledger_message(db, log, sender, command, rows) :
                rows \in get_ledger(log, LedgerUser(sender, command))}

\* the worker's task ends in a panic with the lock held
WorkerPanics(w) ==
    /\ poisoned' = TRUE
    /\ lockHolder' = "none"
    /\ wpc' = [wpc EXCEPT ![w] = "idle"]
    /\ wcmd' = [wcmd EXCEPT ![w] = NoCommand]
    /\ wreply' = [wreply EXCEPT ![w] = NoOutcome]

\* the worker's task ends, the lock is let go
WorkerReturns(w) ==
    /\ poisoned' = poisoned
    /\ lockHolder' = "none"
    /\ wpc' = [wpc EXCEPT ![w] = "idle"]
    /\ wcmd' = [wcmd EXCEPT ![w] = NoCommand]
    /\ wreply' = [wreply EXCEPT ![w] = NoOutcome]

\* a message arrives: the worker takes the lock and runs the handler up to
\* its reply, or up to the insert of on_send_message
WorkerRun(w, sender, command) ==
    /\ proc = "up"
    /\ wpc[w] = "idle"
    /\ LockFree(w)
    /\ \E o \in HandlerOutcomes(sender, command) :
          IF Failed(o)
          THEN /\ WorkerPanics(w)
               /\ UNCHANGED users
          ELSE /\ lockHolder' = "worker"
               /\ poisoned' = poisoned
               /\ wpc' = [wpc EXCEPT ![w] =
                            IF o.kind = "commit" THEN "insert" ELSE "reply"]
               /\ wcmd' = [wcmd EXCEPT ![w] =
                            [kind |-> command.kind, sender |-> sender,
                             arg |-> command.arg, amount |-> command.amount,
                             memo |-> command.memo]]
               /\ wreply' = [wreply EXCEPT ![w] = o]
               /\ users' = IF o.kind = "set_min"
                           THEN set_min_balance(users,
                                    create_user_id(command.arg), command.amount)
                           ELSE users
    /\ UNCHANGED <<db, log, proc, env, now, spc, wakeAt>>
    /\ UNCHANGED aiVars

\* the insert of on_send_message as two rows, one taking the amount from
\* the sender and one giving it to the receiver
WorkerInsertTwice(w) ==
    /\ proc = "up"
    /\ wpc[w] = "insert"
    /\ \E ok \in BOOLEAN :
          IF ok /\ HasTransactions(db)
          THEN /\ LET row == SendRow(wcmd[w].sender, wcmd[w], now)
                  IN  log' = log \o <<[row EXCEPT !.receiver = row.sender,
                                                   !.amount = -row.amount],
                                      [row EXCEPT !.sender = NoneV]>>
               /\ wpc' = [wpc EXCEPT ![w] = "reply"]
               /\ wreply' = [wreply EXCEPT ![w] = Outcome("sent")]
               /\ UNCHANGED <<lockHolder, poisoned, wcmd>>
          ELSE /\ WorkerPanics(w)
               /\ UNCHANGED log
    /\ UNCHANGED <<db, users, proc, env, now, spc, wakeAt>>
    /\ UNCHANGED aiVars

\* the insert of on_send_message as an upsert by sender and receiver: a row
\* of the same two accounts is written over
WorkerInsertUpsert(w) ==
    /\ proc = "up"
    /\ wpc[w] = "insert"
    /\ \E ok \in BOOLEAN :
          IF ok /\ HasTransactions(db)
          THEN /\ LET row  == SendRow(wcmd[w].sender, wcmd[w], now)
                      same == {i \in 1..Len(log) :
                                 /\ log[i].sender = row.sender
                                 /\ log[i].receiver = row.receiver}
                  IN  log' = IF same = {} THEN Append(log, row)
                             ELSE [i \in 1..Len(log) |->
                                     IF i \in same THEN row ELSE log[i]]
               /\ wpc' = [wpc EXCEPT ![w] = "reply"]
               /\ wreply' = [wreply EXCEPT ![w] = Outcome("sent")]
               /\ UNCHANGED <<lockHolder, poisoned, wcmd>>
          ELSE /\ WorkerPanics(w)
               /\ UNCHANGED log
    /\ UNCHANGED <<db, users, proc, env, now, spc, wakeAt>>
    /\ UNCHANGED aiVars

\* the insert of on_send_message: the row is written or the store fails
WorkerInsert(w) ==
    /\ proc = "up"
    /\ wpc[w] = "insert"
    /\ \E ok \in BOOLEAN :
          IF ok /\ HasTransactions(db)
          THEN /\ log' = Append(log, SendRow(wcmd[w].sender, wcmd[w], now))
               /\ wpc' = [wpc EXCEPT ![w] = "reply"]
               /\ wreply' = [wreply EXCEPT ![w] = Outcome("sent")]
               /\ UNCHANGED <<lockHolder, poisoned, wcmd>>
          ELSE /\ WorkerPanics(w)
               /\ UNCHANGED log
    /\ UNCHANGED <<db, users, proc, env, now, spc, wakeAt>>
    /\ UNCHANGED aiVars

\* room.send of the reply ends, well or with an Err
WorkerReply(w) ==
    /\ proc = "up"
    /\ wpc[w] = "reply"
    /\ \E ok \in BOOLEAN :
          IF ok THEN WorkerReturns(w) ELSE WorkerPanics(w)
    /\ UNCHANGED <<db, log, users, proc, env, now, spc, wakeAt>>
    /\ UNCHANGED aiVars

----------------------------------------------------------------------------
(* The allowance task: the loop of main around manage_allowance *)

\* manage_allowance reads the clock and goes to sleep until next_friday
SchedCompute ==
    /\ proc = "up"
    /\ spc = "compute"
    /\ wakeAt' = now + duration(now)
    /\ spc' = "sleep"
    /\ UNCHANGED <<db, log, users, proc, env, now, lockHolder, poisoned,
                   wpc, wcmd, wreply>>
    /\ UNCHANGED aiVars

\* the sleep is over: the task takes the lock and sends Chase's allowance.
\* A poisoned lock panics the task; an Err of send leaves manage_allowance,
\* and the loop calls it again.
SchedTransfer1 ==
    /\ proc = "up"
    /\ spc = "sleep"
    /\ now >= wakeAt
    /\ IF poisoned
       THEN /\ spc' = "dead"
            /\ UNCHANGED <<log, lockHolder>>
       ELSE /\ LockFree("sched")
            /\ \E ok \in BOOLEAN :
                  IF ok /\ HasTransactions(db)
                  THEN /\ log' = Append(log, AllowanceRow(Chase, env.chase, now))
                       /\ lockHolder' = "sched"
                       /\ spc' = "transfer2"
                  ELSE /\ spc' = "compute"
                       /\ UNCHANGED <<log, lockHolder>>
    /\ UNCHANGED <<db, users, proc, env, now, poisoned, wpc, wcmd, wreply,
                   wakeAt>>
    /\ UNCHANGED aiVars

\* Charlie's allowance with the Err of send dropped: the task goes on to the
\* announcement whether the row was written or not
SchedTransfer2Unchecked ==
    /\ proc = "up"
    /\ spc = "transfer2"
    /\ lockHolder' = "none"
    /\ \E ok \in BOOLEAN :
          IF ok
          THEN /\ log' = Append(log, AllowanceRow(Charlie, env.charlie, now))
               /\ spc' = "announce"
          ELSE /\ spc' = "announce"
               /\ UNCHANGED log
    /\ UNCHANGED <<db, users, proc, env, now, poisoned, wpc, wcmd, wreply,
                   wakeAt>>
    /\ UNCHANGED aiVars

\* Charlie's allowance, and the lock is let go
SchedTransfer2 ==
    /\ proc = "up"
    /\ spc = "transfer2"
    /\ lockHolder' = "none"
    /\ \E ok \in BOOLEAN :
          IF ok
          THEN /\ log' = Append(log, AllowanceRow(Charlie, env.charlie, now))
               /\ spc' = "announce"
          ELSE /\ spc' = "compute"
               /\ UNCHANGED log
    /\ UNCHANGED <<db, users, proc, env, now, poisoned, wpc, wcmd, wreply,
                   wakeAt>>
    /\ UNCHANGED aiVars

\* room_send of the announcement; then the sleep of one minute
SchedAnnounce ==
    /\ proc = "up"
    /\ spc = "announce"
    /\ \E ok \in BOOLEAN :
          IF ok
          THEN /\ spc' = "buffer"
               /\ wakeAt' = now + BufferSleep
          ELSE /\ spc' = "compute"
               /\ UNCHANGED wakeAt
    /\ UNCHANGED <<db, log, users, proc, env, now, lockHolder, poisoned,
                   wpc, wcmd, wreply>>
    /\ UNCHANGED aiVars

\* the minute is over: manage_allowance returns Ok
SchedBufferDone ==
    /\ proc = "up"
    /\ spc = "buffer"
    /\ now >= wakeAt
    /\ spc' = "compute"
    /\ UNCHANGED <<db, log, users, proc, env, now, lockHolder, poisoned,
                   wpc, wcmd, wreply, wakeAt>>
    /\ UNCHANGED aiVars

----------------------------------------------------------------------------
(* The clock *)

\* a millisecond passes while the allowance task is at work; the model
\* follows the clock for MaxLatency milliseconds past a whole minute
Tick ==
    /\ spc \in {"compute", "transfer2", "announce"}
    /\ now % (60 * Second) < MaxLatency
    /\ now' = now + 1
    /\ UNCHANGED <<db, log, users, proc, env, lockHolder, poisoned,
                   wpc, wcmd, wreply, spc, wakeAt>>
    /\ UNCHANGED aiVars

\* a millisecond passes after a row was dated in the current one
TickAfterRow ==
    /\ \E i \in 1..Len(log) : log[i].date = now
    /\ now' = now + 1
    /\ UNCHANGED <<db, log, users, proc, env, lockHolder, poisoned,
                   wpc, wcmd, wreply, spc, wakeAt>>
    /\ UNCHANGED aiVars

\* the time of a sleep of the allowance task passes
Elapse ==
    /\ spc \in {"sleep", "buffer"}
    /\ wakeAt > now
    /\ wakeAt <= MaxTime
    /\ now' = wakeAt
    /\ UNCHANGED <<db, log, users, proc, env, lockHolder, poisoned,
                   wpc, wcmd, wreply, spc, wakeAt>>
    /\ UNCHANGED aiVars

----------------------------------------------------------------------------
(* The program *)

Next ==
    \/ \E k \in 0..InitStatements : BotNew(k)
    \/ Shutdown
    \/ \E w \in Workers, r \in Requests :
          /\ r[2].kind = "send" => Len(log) < MaxLog
          /\ WorkerRun(w, r[1], r[2])
    \/ \E w \in Workers : WorkerInsert(w)
    \/ \E w \in Workers : WorkerReply(w)
    \/ SchedCompute
    \/ (Len(log) < MaxLog /\ SchedTransfer1)
    \/ SchedTransfer2
    \/ SchedAnnounce
    \/ SchedBufferDone
    \/ Tick
    \/ Elapse

Spec == Init /\ [][Next]_vars

----------------------------------------------------------------------------
(* The program before its first due instant, with a longer log: the ledger
   of an account with more rows than LedgerLimit.  The allowance task
   computes its wait and sleeps. *)

MaxLedgerLog == 8

\* at most MaxTies rows are dated within one millisecond
MaxTies == 2

LedgerRequests ==
    {<<Phil,  Command("send", "chase", 5000, "rent")>>,
     <<Chase, Command("send", "dad", 5000, NoneV)>>,
     <<Phil,  Command("ledger", "", 0, NoneV)>>,
     <<Chase, Command("ledger", "plain", 0, NoneV)>>}

NextLedger ==
    \/ BotNew(InitStatements)
    \/ \E w \in Workers, r \in LedgerRequests :
          /\ r[2].kind = "send" =>
                /\ Len(log) < MaxLedgerLog
                /\ Cardinality({i \in 1..Len(log) : log[i].date = now}) < MaxTies
          /\ WorkerRun(w, r[1], r[2])
    \/ \E w \in Workers : WorkerInsert(w)
    \/ \E w \in Workers : WorkerReply(w)
    \/ SchedCompute
    \/ TickAfterRow

SpecLedger == Init /\ [][NextLedger]_vars

----------------------------------------------------------------------------
(* The program before its first due instant with the sends the validation
   of on_send_message tells apart: by sign, by funds against a floor below
   zero, to the sender itself, and to an account the log does not hold. *)

MaxSendLog == 6

\* Phil pays rent, sets his own floor below zero, sends what leaves him at
\* the floor, sends to Zoe whom the log does not hold, to himself, and takes
\* money back; Chase sends to himself, takes, sends to Zoe and to Phil
SendRequests ==
    {<<Phil,  Command("send", "chase", 5000, "rent")>>,
     <<Phil,  Command("set min", "dad", -2000, NoneV)>>,
     <<Phil,  Command("send", "chase", 97000, NoneV)>>,
     <<Phil,  Command("send", "zoe", 1, NoneV)>>,
     <<Phil,  Command("send", "dad", 5000, NoneV)>>,
     <<Phil,  Command("send", "chase", -5000, NoneV)>>,
     <<Chase, Command("send", "chase", 5000, NoneV)>>,
     <<Chase, Command("send", "chase", 0, NoneV)>>,
     <<Chase, Command("send", "dad", -5000, NoneV)>>,
     <<Chase, Command("send", "zoe", 5000, NoneV)>>,
     <<Chase, Command("send", "dad", 5000, NoneV)>>}

NextSend ==
    \/ BotNew(InitStatements)
    \/ \E w \in Workers, r \in SendRequests :
          /\ r[2].kind = "send" => Len(log) < MaxSendLog
          /\ WorkerRun(w, r[1], r[2])
    \/ \E w \in Workers : WorkerInsert(w)
    \/ \E w \in Workers : WorkerReply(w)

SpecSend == Init /\ [][NextSend]_vars

----------------------------------------------------------------------------
(* The start of the program at any instant of two weeks, up to the wait
   manage_allowance computes: the calendar of the allowance task. *)

MaxCalendarDays == 14

\* the times of day the program starts at, as instants of the day in
\* standard time: around 09:00 of the standard and of the daylight clock,
\* on the second and off it, at noon and at the ends of the day
TimesOfDay ==
    {0, 8 * Hour - 1, 8 * Hour, 8 * Hour + 1, 9 * Hour - 1, 9 * Hour,
     9 * Hour + 1, 9 * Hour + Second, 12 * Hour, Day - 1}

CalendarInstants ==
    {d * Day + t : d \in 0..(MaxCalendarDays - 1), t \in TimesOfDay}

InitCalendar ==
    /\ db = "absent"
    /\ log = << >>
    /\ users = {}
    /\ proc = "down"
    /\ env \in EnvConfigs
    /\ now \in CalendarInstants
    /\ lockHolder = "none"
    /\ poisoned = FALSE
    /\ wpc = [w \in Workers |-> "idle"]
    /\ wcmd = [w \in Workers |-> NoCommand]
    /\ wreply = [w \in Workers |-> NoOutcome]
    /\ spc = "off"
    /\ wakeAt = 0
    /\ ALL_CONTEXT = NoContext
    /\ calls = [c \in Callers |-> NoCall]

NextCalendar ==
    \/ BotNew(InitStatements)
    \/ SchedCompute

SpecCalendar == InitCalendar /\ [][NextCalendar]_vars

----------------------------------------------------------------------------
(* The program with the commands on the floors, over starts and ends of the
   process: floors are set, set again and read. *)

\* Phil sets Chase's floor to two values and his own to one; Chase tries to
\* set his own; floors that were set and one that never was are read
MinRequests ==
    {<<Phil,  Command("set min", "chase", 500, NoneV)>>,
     <<Phil,  Command("set min", "chase", -5000, NoneV)>>,
     <<Phil,  Command("set min", "dad", -2000, NoneV)>>,
     <<Chase, Command("set min", "chase", -5000, NoneV)>>,
     <<Chase, Command("get min", "chase", 0, NoneV)>>,
     <<Chase, Command("get min", "dad", 0, NoneV)>>,
     <<Phil,  Command("get min", "zoe", 0, NoneV)>>}

NextMin ==
    \/ BotNew(InitStatements)
    \/ Shutdown
    \/ \E w \in Workers, r \in MinRequests : WorkerRun(w, r[1], r[2])
    \/ \E w \in Workers : WorkerReply(w)

SpecMin == Init /\ [][NextMin]_vars

----------------------------------------------------------------------------
(* The program with every way money moves: the seeds of a start, complete
   or not, the sends of a privileged and of another sender, among them a
   send of a negative amount, and the two rows of the allowance. *)

MaxMoneyLog == 5

MoneyRequests ==
    {<<Phil,  Command("send", "chase", -5000, NoneV)>>,
     <<Phil,  Command("send", "zoe", 1, NoneV)>>,
     <<Chase, Command("send", "dad", 500, NoneV)>>}

NextMoney ==
    \/ \E k \in 0..InitStatements : BotNew(k)
    \/ Shutdown
    \/ \E w \in Workers, r \in MoneyRequests :
          /\ Len(log) < MaxMoneyLog
          /\ WorkerRun(w, r[1], r[2])
    \/ \E w \in Workers : WorkerInsert(w)
    \/ \E w \in Workers : WorkerReply(w)
    \/ SchedCompute
    \/ (Len(log) < MaxMoneyLog /\ SchedTransfer1)
    \/ SchedTransfer2
    \/ SchedAnnounce
    \/ SchedBufferDone
    \/ Elapse

SpecMoney == Init /\ [][NextMoney]_vars

----------------------------------------------------------------------------
(* The ai bot: calls of chat for a room, any number of them in progress at
   once.  A call pushes the prompt, posts the context, and on a response
   records it and trims the context; a post that fails ends the call with
   the prompt left in the context. *)

\* chat up to the post: get_context
ChatGetContext(c, room, prompt) ==
    /\ calls[c].pc = "idle"
    /\ room \in DOMAIN ALL_CONTEXT => Len(ALL_CONTEXT[room]) < MaxContext
    /\ ALL_CONTEXT' = get_context(ALL_CONTEXT, room, prompt)
    /\ calls' = [calls EXCEPT ![c] = [pc |-> "post", room |-> room]]
    /\ UNCHANGED moneyVars

\* the post fails, the status is no success or the body does not parse:
\* chat returns the Err
ChatPostFails(c) ==
    /\ calls[c].pc = "post"
    /\ calls' = [calls EXCEPT ![c] = NoCall]
    /\ UNCHANGED ALL_CONTEXT
    /\ UNCHANGED moneyVars

\* the response has come: record_response
ChatRecordResponse(c, response) ==
    /\ calls[c].pc = "post"
    /\ ALL_CONTEXT' = record_response(ALL_CONTEXT, calls[c].room, response)
    /\ calls' = [calls EXCEPT ![c].pc = "cleanup"]
    /\ UNCHANGED moneyVars

\* cleanup_context, and chat returns the response
ChatCleanupContext(c) ==
    /\ calls[c].pc = "cleanup"
    /\ ALL_CONTEXT' = cleanup_context(ALL_CONTEXT, calls[c].room)
    /\ calls' = [calls EXCEPT ![c] = NoCall]
    /\ UNCHANGED moneyVars

NextChat ==
    \/ \E c \in Callers, room \in Rooms, prompt \in Prompts :
          ChatGetContext(c, room, prompt)
    \/ \E c \in Callers : ChatPostFails(c)
    \/ \E c \in Callers, response \in Responses :
          ChatRecordResponse(c, response)
    \/ \E c \in Callers : ChatCleanupContext(c)

SpecChat == Init /\ [][NextChat]_vars

----------------------------------------------------------------------------
(* Properties *)

\* the balance of an account read off the log row by row: each row adds its
\* amount to its receiver and takes it from its sender
RECURSIVE Net(_, _)
Net(l, a) ==
    IF l = << >> THEN 0
    ELSE LET n  == Len(l)
             tr == l[n]
         IN  Net(SubSeq(l, 1, n - 1), a)
             + (IF tr.receiver = a THEN tr.amount ELSE 0)
             - (IF tr.sender = a THEN tr.amount ELSE 0)

\* C1: in every reachable state the balance of every account, as
\* get_balance computes it and as a balance command in progress reports it,
\* is the sum of the amounts of the logged rows the account receives minus
\* the sum of those it sends; an account in no row has balance 0.
C1_BalanceIsReceivedMinusSent ==
    /\ \A a \in Accounts : get_balance(log, a) = Net(log, a)
    /\ \A a \in Accounts : Touching(log, a) = {} => get_balance(log, a) = 0
    /\ \A w \in Workers :
          (wpc[w] = "reply" /\ wreply[w].kind = "balance") =>
             wreply[w].value =
                Net(log, normalize_sender(wcmd[w].sender, wcmd[w].arg))

\* a balance command reports the balance of an account that has received
\* and sent
C1_Witness ==
    \E w \in Workers :
       /\ wpc[w] = "reply"
       /\ wreply[w].kind = "balance"
       /\ wreply[w].value # 0
       /\ \E i, j \in 1..Len(log) :
             /\ log[i].receiver = normalize_sender(wcmd[w].sender, wcmd[w].arg)
             /\ log[j].sender = normalize_sender(wcmd[w].sender, wcmd[w].arg)

\* the case of C2: a send of a sender that is not privileged, whose amount
\* taken from the balance leaves less than the floor
C2_Case(sender, command) ==
    /\ command.kind = "send"
    /\ ~is_admin(sender)
    /\ get_balance(log, sender) - command.amount < get_min_balance(users, sender)

\* the handler comes to a verdict: the command names a user id and the store
\* can be read
C2_Answers(command) ==
    /\ create_user_id(command.arg) # ErrV
    /\ HasTransactions(db) /\ HasUsers(db)

\* C2 as claimed: a send by a sender that is not privileged with
\* balance(sender) - amount < minimumBalance(sender) is rejected as
\* insufficient funds and appends nothing.
C2_RejectedAsInsufficient ==
    [][\A w \in Workers, r \in Requests :
          (C2_Case(r[1], r[2]) /\ C2_Answers(r[2])
              /\ WorkerRun(w, r[1], r[2])) =>
             /\ wpc'[w] = "reply"
             /\ wreply'[w].kind = "insufficient"
             /\ log' = log]_vars

\* C2 amended: such a send is rejected and appends nothing; the rejection is
\* insufficient funds when the amount is positive, the zero-amount one when
\* it is zero and the not-permitted withdrawal when it is negative.  A worker
\* that holds a rejection never changes the log.
C2_RejectedAndNothingAppended ==
    [][/\ \A w \in Workers, r \in Requests :
             (C2_Case(r[1], r[2]) /\ WorkerRun(w, r[1], r[2])) =>
                /\ log' = log
                /\ wpc'[w] # "insert"
                /\ C2_Answers(r[2]) =>
                      /\ wpc'[w] = "reply"
                      /\ wreply'[w].kind =
                            IF r[2].amount > 0 THEN "insufficient"
                            ELSE IF r[2].amount = 0 THEN "zero"
                            ELSE "no_take"
       /\ \A w \in Workers :
             (wpc[w] = "reply"
                 /\ wreply[w].kind \in {"insufficient", "zero", "no_take"}) =>
                log' = log]_vars

\* a worker holds the insufficient-funds rejection of a send of a positive
\* amount by a sender that is not privileged and has received money
C2_Witness ==
    \E w \in Workers :
       /\ wpc[w] = "reply"
       /\ wreply[w].kind = "insufficient"
       /\ ~is_admin(wcmd[w].sender)
       /\ wcmd[w].amount > 0
       /\ get_balance(log, wcmd[w].sender) > 0

\* C3: the check and the insert of a send are one critical section: at most
\* one of the workers and the allowance task is inside the lock, and while a
\* worker is between its check and its insert the check still holds of the
\* store, so a second send of the same sender cannot have been committed on
\* the balance it was checked against.
C3_CheckAndInsertAreOneSection ==
    /\ Cardinality({w \in Workers : wpc[w] # "idle"})
          + (IF spc = "transfer2" THEN 1 ELSE 0) <= 1
    /\ \A w \in Workers :
          wpc[w] = "insert" =>
             get_balance(log, wcmd[w].sender) - wcmd[w].amount
                >= get_min_balance(users, wcmd[w].sender)

\* a sender that is not privileged is between check and insert of a send
\* that takes the balance down to the floor, so that the balance covers one
\* such send and not two
C3_Witness ==
    \E w \in Workers :
       /\ wpc[w] = "insert"
       /\ ~is_admin(wcmd[w].sender)
       /\ get_balance(log, wcmd[w].sender) - wcmd[w].amount
             = get_min_balance(users, wcmd[w].sender)

\* a row of the allowance task for recipient r: interactive commands of the
\* model never carry the memo "allowance"
IsAllowance(tr, r) ==
    tr.sender = Phil /\ tr.receiver = r /\ tr.memo = "allowance"

\* the first due instant, Friday 09:00:00 of the first week, and the number
\* of the weekly period an instant lies in
FirstFriday == 4 * Day + 9 * Hour
Period(t) == (t - FirstFriday) \div Week

\* C4: for each Friday due instant each of the two recipients receives at
\* most one allowance row, also when a transfer or the announcement fails
\* and the allowance task computes its wait again.
C4_OneAllowancePerPeriod ==
    \A r \in {Chase, Charlie} :
       \A i, j \in 1..Len(log) :
          (i # j /\ IsAllowance(log[i], r) /\ IsAllowance(log[j], r)) =>
             Period(log[i].date) # Period(log[j].date)

\* C5: the allowance task of a running process never stops: no reachable
\* state has its loop ended.
C5_AllowanceTaskNeverStops ==
    proc = "up" => spc # "dead"

\* the signed amount of a row for an account: what the row adds to the
\* account's balance
Signed(tr, a) == IF tr.receiver = a THEN tr.amount ELSE -tr.amount

\* the statements on_ledger_message may build for account a
Statements(a) ==
    {BalanceRows(rows, a, get_balance(log, a)) : rows \in get_ledger(log, a)}

\* C6: for every account and every log, the running balance on the newest
\* row of the ledger statement is the balance of the account read off the
\* log, whatever the number of rows of the statement; so for the statement
\* a ledger command in progress shows.
C6_TopRowShowsBalance ==
    /\ \A a \in Accounts : \A st \in Statements(a) :
          Len(st) > 0 => st[1].balance = Net(log, a)
    /\ \A w \in Workers :
          (wpc[w] = "reply" /\ wreply[w].kind = "ledger"
              /\ Len(wreply[w].rows) > 0) =>
             wreply[w].rows[1].balance = Net(log, LedgerUser(wcmd[w].sender, wcmd[w]))

\* a ledger command shows LedgerLimit rows of an account with more rows
C6_Witness ==
    \E w \in Workers :
       /\ wpc[w] = "reply"
       /\ wreply[w].kind = "ledger"
       /\ Len(wreply[w].rows) = LedgerLimit
       /\ Cardinality(Touching(log, LedgerUser(wcmd[w].sender, wcmd[w])))
             > LedgerLimit

\* C7: in a ledger statement the running balance of each older row is that
\* of the row above it minus the signed amount of the row above, and the
\* amount a row shows is its signed amount.
C7_RunningBalanceSteps ==
    \A a \in Accounts : \A rows \in get_ledger(log, a) :
       LET st == BalanceRows(rows, a, get_balance(log, a))
       IN  /\ Len(st) = Len(rows)
           /\ \A i \in 1..Len(st) : st[i].amount = Signed(rows[i], a)
           /\ \A i \in 1..(Len(st) - 1) :
                 st[i + 1].balance = st[i].balance - Signed(rows[i], a)

\* a ledger command shows a statement with a row received above a row sent
C7_Witness ==
    \E w \in Workers :
       /\ wpc[w] = "reply"
       /\ wreply[w].kind = "ledger"
       /\ \E i \in 1..(Len(wreply[w].rows) - 1) :
             /\ wreply[w].rows[i].amount > 0
             /\ wreply[w].rows[i + 1].amount < 0

\* C8: the ledger command produces a statement for every account in every
\* log of a running process with its tables, also when a seed row, which
\* has no sender, is among the rows.
C8_LedgerAlwaysAnswers ==
    (proc = "up" /\ db = "ready") =>
       \A r \in Requests :
          r[2].kind = "ledger" =>
             \A rows \in get_ledger(log, LedgerUser(r[1], r[2])) :
                on_ledger_message(db, log, r[1], r[2], rows).kind = "ledger"

\* the seed rows of account a
SeedRows(a) ==
    {i \in 1..Len(log) : log[i].sender = NoneV /\ log[i].receiver = a}

\* C9: whatever the starts and ends of the process, the log holds at most
\* one seed row for each of the two seed accounts.
C9_SeededAtMostOnce ==
    \A a \in {Gwen, Phil} : Cardinality(SeedRows(a)) <= 1

\* a process has just started on a store an earlier process has left: the
\* store holds the seeds and an allowance row, and the allowance task of
\* this process has not yet run
C9_Witness ==
    /\ proc = "up"
    /\ spc = "compute"
    /\ wakeAt = 0
    /\ \A a \in {Gwen, Phil} : Cardinality(SeedRows(a)) = 1
    /\ \E i \in 1..Len(log) : log[i].memo = "allowance"

\* C10: a transfer of amount 0 never appends a row: no row of the log has
\* amount 0.
C10_NoZeroAmountRow ==
    \A i \in 1..Len(log) : log[i].amount # 0

\* the check the stated order of validation meets first for a send: zero
\* amount, negative amount of a sender that is not privileged, self-transfer,
\* insufficient funds, unknown recipient
C11_FirstFailing(l, u, sender, command) ==
    LET receiver == create_user_id(command.arg)
        amount   == command.amount
    IN  IF amount = 0 THEN "zero"
        ELSE IF amount < 0 /\ ~is_admin(sender) THEN "no_take"
        ELSE IF sender = receiver THEN "self"
        ELSE IF get_balance(l, sender) - amount < get_min_balance(u, sender)
             THEN "insufficient"
        ELSE IF ~id_exists(l, receiver) /\ ~is_admin(sender)
             THEN "invalid_user"
        ELSE "commit"

\* C11: a send that breaks more than one rule of validation is answered with
\* the rejection of the first failing check in the order zero amount,
\* negative amount of a sender that is not privileged, self-transfer,
\* insufficient funds, unknown recipient: while a rejected send waits for its
\* reply to be sent, the reply is the one that order gives (a self-transfer
\* of a sender without the funds is answered as self-transfer).
C11_FirstFailingCheckWins ==
    \A w \in Workers :
        (/\ wpc[w] = "reply"
         /\ wcmd[w].kind = "send"
         /\ wreply[w].kind # "sent")
        => wreply[w].kind = C11_FirstFailing(log, users, wcmd[w].sender, wcmd[w])

\* C12: a send with sender = receiver and an amount that is not zero never
\* appends a transaction, privileged or not, whatever balance and floor: no
\* handler comes to the insert of a row from an account to itself, and the
\* log holds no such row.
C12_SelfTransferNeverAppends ==
    /\ \A i \in 1..Len(log) : log[i].sender # log[i].receiver
    /\ \A w \in Workers :
          wpc[w] = "insert" => wcmd[w].sender # create_user_id(wcmd[w].arg)

\* a self-transfer of a sender that is not privileged and has the funds
\* waits for its rejection to be sent
C12_Witness ==
    \E w \in Workers :
        /\ wpc[w] = "reply"
        /\ wcmd[w].kind = "send"
        /\ wcmd[w].amount # 0
        /\ wcmd[w].sender = create_user_id(wcmd[w].arg)
        /\ ~is_admin(wcmd[w].sender)
        /\ get_balance(log, wcmd[w].sender) - wcmd[w].amount
              >= get_min_balance(users, wcmd[w].sender)
        /\ wreply[w].kind = "self"

\* C13: the check of the funds is made only for senders that are not
\* privileged: no send of a privileged sender is ever answered with the
\* rejection for insufficient funds, whatever its balance and floor.
C13_PrivilegedNeverInsufficient ==
    \A w \in Workers :
        (wcmd[w].kind = "send" /\ is_admin(wcmd[w].sender))
        => wreply[w].kind # "insufficient"

\* an account is known when some row of the log names it
Known(l, a) == \E i \in 1..Len(l) : l[i].sender = a \/ l[i].receiver = a

\* a send of a sender that is not privileged, to an account no row names,
\* is past its handler
C14_Case(w) ==
    /\ wpc[w] \in {"insert", "reply"}
    /\ wcmd[w].kind = "send"
    /\ ~is_admin(wcmd[w].sender)
    /\ create_user_id(wcmd[w].arg) # ErrV
    /\ ~Known(log, create_user_id(wcmd[w].arg))

\* C14 as claimed: a send of a sender that is not privileged to a receiver
\* that no logged transaction names is rejected as unknown recipient and
\* appends nothing, and an account counts as known exactly when a
\* transaction names it.
C14_UnknownRecipientRejected ==
    /\ \A w \in Workers :
          C14_Case(w) => (wpc[w] = "reply" /\ wreply[w].kind = "invalid_user")
    /\ \A a \in Accounts : id_exists(log, a) <=> Known(log, a)

\* C14 amended: such a send is always rejected and appends nothing; the
\* rejection is unknown recipient when the amount is positive and the
\* sender's funds cover it, and else that of the earlier check (withdrawal
\* not permitted, zero amount, insufficient funds); an account counts as
\* known exactly when a transaction names it.
C14_UnknownRecipientRejectedAfterFunds ==
    /\ \A w \in Workers :
          C14_Case(w) =>
            /\ wpc[w] = "reply"
            /\ wreply[w].kind \in
                  {"no_take", "zero", "insufficient", "invalid_user"}
            /\ (/\ wcmd[w].amount > 0
                /\ get_balance(log, wcmd[w].sender) - wcmd[w].amount
                      >= get_min_balance(users, wcmd[w].sender))
               => wreply[w].kind = "invalid_user"
    /\ \A a \in Accounts : id_exists(log, a) <=> Known(log, a)

\* Chase has the funds and sends to Zoe, whom no row names
C14_Witness ==
    \E w \in Workers :
        /\ C14_Case(w)
        /\ wcmd[w].amount > 0
        /\ get_balance(log, wcmd[w].sender) - wcmd[w].amount
              >= get_min_balance(users, wcmd[w].sender)
        /\ wreply[w].kind = "invalid_user"

\* a send of an amount that is not zero by a privileged sender to another
\* account, which no row names; the store can be read
C15_Case(sender, command) ==
    /\ command.kind = "send"
    /\ is_admin(sender)
    /\ command.amount # 0
    /\ create_user_id(command.arg) \in Accounts \ {sender}
    /\ ~Known(log, create_user_id(command.arg))
    /\ HasTransactions(db) /\ HasUsers(db)

\* C15: a send of an amount that is not zero by a privileged sender to an
\* account the log has never held succeeds: the handler comes to its insert,
\* the insert makes the account known, and an account once known is known
\* in every later state.
C15_PrivilegedSendMakesKnown ==
    [][/\ \A w \in Workers, r \in SendRequests :
             (C15_Case(r[1], r[2]) /\ WorkerRun(w, r[1], r[2])) =>
                wpc'[w] = "insert"
       /\ \A w \in Workers :
             (wpc[w] = "insert" /\ wpc'[w] = "reply") =>
                Known(log', create_user_id(wcmd[w].arg))
       /\ \A a \in Accounts : Known(log, a) => Known(log', a)]_vars

\* C16: every transaction of the log has an amount above zero in every
\* reachable state: a transfer stores the magnitude of its amount, also for
\* the send of a negative amount by a privileged sender; the direction is
\* never the sign of the stored amount.
C16_StoredAmountsPositive ==
    \A i \in 1..Len(log) : log[i].amount > 0

\* a send of a negative amount by a sender that is not privileged, naming a
\* user id
C17_Case(sender, command) ==
    /\ command.kind = "send"
    /\ ~is_admin(sender)
    /\ command.amount < 0
    /\ create_user_id(command.arg) # ErrV

\* C17: a send of a negative amount by a sender that is not privileged is
\* always rejected as a withdrawal that is not permitted, and appends no
\* transaction: the handler comes to that reply without a change of the log,
\* and the worker that holds the reply never changes the log.
C17_NegativeSendRejected ==
    [][/\ \A w \in Workers, r \in SendRequests :
             (C17_Case(r[1], r[2]) /\ WorkerRun(w, r[1], r[2])) =>
                /\ wpc'[w] = "reply"
                /\ wreply'[w].kind = "no_take"
                /\ log' = log
       /\ \A w \in Workers :
             (wpc[w] = "reply" /\ wreply[w].kind = "no_take") => log' = log]_vars

\* Chase, who has received money, holds the rejection of his taking from Phil
C17_Witness ==
    \E w \in Workers :
        /\ wpc[w] = "reply"
        /\ C17_Case(wcmd[w].sender, wcmd[w])
        /\ wreply[w].kind = "no_take"
        /\ get_balance(log, wcmd[w].sender) > 0

\* l is the beginning of m
IsPrefix(l, m) == Len(l) <= Len(m) /\ SubSeq(m, 1, Len(l)) = l

\* C18: the log is append-only: in every step of every operation (send, set
\* min, balance, ledger, disbursement, start and end of the process) the log
\* before the step is the beginning of the log after it; no transaction is
\* ever changed or removed.
C18_LogIsAppendOnly ==
    [][IsPrefix(log, log')]_vars

\* the log has grown by a send and by an allowance, and a floor has been set
C18_Witness ==
    /\ \E i \in 1..Len(log) : log[i].memo = "rent"
    /\ \E i \in 1..Len(log) : log[i].memo = "allowance"
    /\ users # {}

\* a send of an amount above zero that names a user id, with the store
\* readable
C19_Case(sender, command) ==
    /\ command.kind = "send"
    /\ command.amount > 0
    /\ create_user_id(command.arg) # ErrV
    /\ HasTransactions(db) /\ HasUsers(db)

\* the checks after the one of the funds pass: the receiver is another
\* account, and known or the sender privileged
C19_RestPasses(sender, command) ==
    /\ create_user_id(command.arg) # sender
    /\ Known(log, create_user_id(command.arg)) \/ is_admin(sender)

\* what the send leaves of the sender's balance, above its floor
C19_Margin(sender, command) ==
    get_balance(log, sender) - command.amount - get_min_balance(users, sender)

\* C19: the comparison with the floor is inclusive and honours floors below
\* zero: a send that leaves the sender's balance at the floor comes to its
\* insert, and the insert leaves the balance at the floor; a send that would
\* leave it one unit lower is rejected as insufficient funds and changes
\* nothing.
C19_FloorIsInclusive ==
    [][/\ \A w \in Workers, r \in SendRequests :
             (C19_Case(r[1], r[2]) /\ WorkerRun(w, r[1], r[2])) =>
                /\ (C19_Margin(r[1], r[2]) = 0 /\ C19_RestPasses(r[1], r[2]))
                      => wpc'[w] = "insert"
                /\ C19_Margin(r[1], r[2]) = -1
                      => /\ wpc'[w] = "reply"
                         /\ wreply'[w].kind = "insufficient"
                         /\ log' = log
       /\ \A w \in Workers :
             (wpc[w] = "insert" /\ wpc'[w] = "reply") =>
                get_balance(log', wcmd[w].sender)
                    = get_balance(log, wcmd[w].sender) - wcmd[w].amount]_vars

\* Phil, whose floor is below zero and whose balance a send has left at the
\* floor, holds the rejection of a send of one unit more
C19_Witness ==
    \E w \in Workers :
        /\ wpc[w] = "reply"
        /\ wreply[w].kind = "insufficient"
        /\ wcmd[w].amount = 1
        /\ get_min_balance(users, wcmd[w].sender) < 0
        /\ get_balance(log, wcmd[w].sender)
              = get_min_balance(users, wcmd[w].sender)

\* the instants at which the Pacific clock reads Friday 09:00:00
FridayNines ==
    {from_local_datetime(n * Week + 4 * Day + 9 * Hour) :
        n \in 0..(MaxCalendarDays \div 7)}

\* C20: for every instant now, the next due instant computed is 09:00:00
\* local time of a Friday, and the earliest such instant not before now (the
\* Friday after, when now is a Friday past 09:00): the allowance task that
\* has computed its wait sleeps until that instant.
C20_DueIsNextFridayNine ==
    spc = "sleep" =>
        /\ wakeAt \in FridayNines
        /\ wakeAt >= now
        /\ \A f \in FridayNines : f >= now => wakeAt <= f

\* C21: whatever weekday and time the allowance task starts at, the wait it
\* computes until the next disbursement is not negative and less than 7
\* days.
C21_WaitWithinAWeek ==
    spc = "sleep" => (wakeAt - now >= 0 /\ wakeAt - now < Week)

\* the task has started on a Friday past 09:00 and waits more than six days
C21_Witness ==
    /\ spc = "sleep"
    /\ number_from_monday(now) = 5
    /\ wakeAt - now > 6 * Day

\* the log without its newest row
Front(l) == SubSeq(l, 1, Len(l) - 1)

\* the verdict of on_send_message on the transfer of the newest row of the
\* log, sent by the row's sender as a chat command on the log before it
C22_Interactive(arg) ==
    on_send_message(db, Front(log), users, Phil,
                    Command("send", arg, log[Len(log)].amount, "allowance"))

\* C22: a disbursement goes through the transfer operation of the chat
\* commands: the allowance task commits a transfer only if the same transfer
\* sent as a command by the source account would be committed; right after
\* each of its two inserts the row it has written is one on_send_message
\* commits on the log before it.
C22_DisbursementIsValidated ==
    /\ spc = "transfer2" => C22_Interactive("chase").kind = "commit"
    /\ spc = "announce" => C22_Interactive("charlie").kind = "commit"

\* the rows of this disbursement: a row to Chase and right after it a row to
\* Charlie with the memo of the allowance, written since the sleep ended
C23_BothCommitted ==
    \E i \in 1..(Len(log) - 1) :
        /\ IsAllowance(log[i], Chase)
        /\ IsAllowance(log[i + 1], Charlie)
        /\ log[i].date >= wakeAt
        /\ log[i + 1].date >= log[i].date

\* C23: the announcement of a disbursement is attempted only after both
\* allowance transfers are committed, and its failure takes nothing back:
\* while the announcement is to be sent the two rows are in the log, and no
\* step, the failing announcement among them, changes or removes a row of
\* the log.
C23_AnnounceAfterBothCommitted ==
    [][/\ spc = "announce" => C23_BothCommitted
       /\ spc' = "announce" => C23_BothCommitted'
       /\ IsPrefix(log, log')]_vars

\* the announcement has failed: the task computes its wait again within the
\* minute of the disbursement, whose two rows are in the log
C23_Witness ==
    /\ spc = "compute"
    /\ \E i \in 1..Len(log) :
          /\ IsAllowance(log[i], Charlie)
          /\ now - log[i].date < BufferSleep

\* the floor of every account
Floors(u) == [a \in Accounts |-> get_min_balance(u, a)]

\* C24: only a privileged actor changes a floor: a set min command of a
\* sender that is not privileged leaves the floor of every account as it is,
\* and so does every step that is not the set min of a privileged sender.
C24_OnlyPrivilegedSetsFloor ==
    [][/\ \A w \in Workers, r \in MinRequests :
             (r[2].kind = "set min" /\ ~is_admin(r[1])
                 /\ WorkerRun(w, r[1], r[2])) =>
                /\ users' = users
                /\ wreply'[w].kind = "not_allowed"
       /\ Floors(users') # Floors(users) =>
             \E w \in Workers :
                /\ wpc[w] = "idle"
                /\ wcmd'[w].kind = "set min"
                /\ is_admin(wcmd'[w].sender)]_vars

\* Chase is told that he may not set floors, while a floor is set
C24_Witness ==
    \E w \in Workers :
        /\ wpc[w] = "reply"
        /\ wcmd[w].kind = "set min"
        /\ ~is_admin(wcmd[w].sender)
        /\ wreply[w].kind = "not_allowed"
        /\ users # {}

\* C25: the floor of an account is 0 when none was ever set and else the
\* value of the latest set min for it, and setting the floor of one account
\* leaves the floors of the others: the new store has no floor but 0; a set
\* min makes its value the floor of its account and changes no other floor;
\* no other step changes a floor; and get min answers with the floor.
C25_FloorIsLatestSet ==
    /\ [](db = "absent" => \A a \in Accounts : get_min_balance(users, a) = 0)
    /\ [](\A w \in Workers :
            (wpc[w] = "reply" /\ wreply[w].kind = "min") =>
               wreply[w].value
                   = get_min_balance(users, create_user_id(wcmd[w].arg)))
    /\ [][\A w \in Workers :
            IF wpc[w] = "idle" /\ wreply'[w].kind = "set_min"
            THEN LET a == create_user_id(wcmd'[w].arg)
                 IN  /\ get_min_balance(users', a) = wcmd'[w].amount
                     /\ \A b \in Accounts \ {a} :
                           get_min_balance(users', b) = get_min_balance(users, b)
            ELSE (\A v \in Workers :
                     ~(wpc[v] = "idle" /\ wreply'[v].kind = "set_min"))
                 => Floors(users') = Floors(users)]_vars

\* Chase's floor has been set and is read, while Phil has a floor of his
\* own and Zoe has none
C25_Witness ==
    \E w \in Workers :
        /\ wpc[w] = "reply"
        /\ wreply[w].kind = "min"
        /\ wreply[w].value # 0
        /\ get_min_balance(users, Phil) # 0
        /\ get_min_balance(users, Phil) # wreply[w].value
        /\ get_min_balance(users, Zoe) = 0

\* C26: set_min_balance is an idempotent upsert: applied a second time with
\* the same account and floor, right after a set min command has applied
\* it, it leaves the store as it is; and table users never holds two rows
\* of one account.
C26_SetMinIsIdempotentUpsert ==
    /\ [](\A r1, r2 \in users : r1.user_id = r2.user_id => r1 = r2)
    /\ [][\A w \in Workers :
            (wpc[w] = "idle" /\ wreply'[w].kind = "set_min") =>
               set_min_balance(users', create_user_id(wcmd'[w].arg),
                               wcmd'[w].amount) = users']_vars

\* a floor that was set before has been set to another value, and another
\* account has a floor
C26_Witness ==
    \E w \in Workers :
        /\ wpc[w] = "reply"
        /\ wreply[w].kind = "set_min"
        /\ wreply[w].value = -5000
        /\ Cardinality(users) = 2

\* the ids in ids by falling date, rows of one date by falling id, or by
\* rising id if up
RECURSIVE ByDateThenId(_, _, _)
ByDateThenId(l, ids, up) ==
    IF ids = {} THEN << >>
    ELSE LET newest == {i \in ids : \A j \in ids : l[j].date <= l[i].date}
             first  == CHOOSE i \in newest :
                          \A j \in newest : IF up THEN i <= j ELSE j <= i
         IN  <<first>> \o ByDateThenId(l, ids \ {first}, up)

\* the first LedgerLimit rows of l in the order o of their ids
Recent(l, o) ==
    [k \in 1..(IF Len(o) < LedgerLimit THEN Len(o) ELSE LedgerLimit) |-> l[o[k]]]

\* C27: for every account, get_ledger gives exactly the LedgerLimit most
\* recent rows touching the account (all of them if there are fewer),
\* newest first by date, rows of equal date in the order of their ids.
C27_LedgerOrderedByDateThenId ==
    \E up \in BOOLEAN :
       \A a \in Accounts :
          get_ledger(log, a) = {Recent(log, ByDateThenId(log, Touching(log, a), up))}

\* C28: a command whose store operation fails is answered: the insert of a
\* send command, written or failed, is followed by a chat reply of the
\* worker as long as the process runs.
C28_StoreFailureIsAnswered ==
    [][\A w \in Workers :
          (wpc[w] = "insert" /\ proc' = "up") =>
             wpc'[w] \in {"insert", "reply"}]_vars

\* C29: the store lock is never held while a worker sends its chat reply:
\* it has been let go before room.send begins.
C29_NoLockDuringReply ==
    \A w \in Workers : wpc[w] = "reply" => lockHolder = "none"

\* C30: the store lock of a running process is always usable: whatever
\* handler or disbursement step has failed before, the mutex is not
\* poisoned, so a later command or disbursement can take it.
C30_LockStaysUsable ==
    proc = "up" => ~poisoned

\* C31: for every account and every result of get_ledger, each row of the
\* statement shows the balance the account had right after the row's
\* transaction was written (the balance over the log up to that row), and
\* the last row's balance less its signed amount is the balance over the
\* log before that row; also with rows of equal date.
C31_RowsShowHistoricalBalance ==
    \A a \in Accounts : \A o \in DateDesc(log, Touching(log, a)) :
       LET st == BalanceRows(Recent(log, o), a, get_balance(log, a))
       IN  /\ \A k \in 1..Len(st) :
                 st[k].balance = Net(SubSeq(log, 1, o[k]), a)
           /\ Len(st) > 0 =>
                 st[Len(st)].balance - st[Len(st)].amount
                    = Net(SubSeq(log, 1, o[Len(st)] - 1), a)

\* C32: in every state in which a process has started on the store, the
\* log holds the seed row of SeedAmount of each of the two seed accounts,
\* exactly once, also when an earlier start failed within init.
C32_SeededExactlyOnce ==
    proc = "up" =>
       \A a \in {Gwen, Phil} :
          /\ Cardinality(SeedRows(a)) = 1
          /\ \A i \in SeedRows(a) : log[i].amount = SeedAmount

\* the sum of get_balance over the accounts in as
RECURSIVE TotalBalance(_, _)
TotalBalance(l, as) ==
    IF as = {} THEN 0
    ELSE LET a == CHOOSE x \in as : TRUE
         IN  get_balance(l, a) + TotalBalance(l, as \ {a})

\* C33: the balances of all accounts add up to the seeds of the log: no
\* send, of a negative amount by a privileged sender as well, and no
\* allowance row changes the total, which is 2 * SeedAmount once both
\* seeds are in the log.
C33_MoneyIsConserved ==
    TotalBalance(log, Accounts)
       = SeedAmount * Cardinality(SeedRows(Gwen) \cup SeedRows(Phil))

\* both seeds, a privileged send of a negative amount, a send of another
\* sender and an allowance row are in the log
C33_Witness ==
    /\ proc = "up"
    /\ SeedRows(Gwen) # {} /\ SeedRows(Phil) # {}
    /\ \E i \in 1..Len(log) : log[i].sender = Phil /\ log[i].amount < 0
    /\ \E i \in 1..Len(log) : log[i].sender = Chase
    /\ \E i \in 1..Len(log) : log[i].memo = "allowance"

\* C34: a send command appends the one row of its insert when the insert
\* succeeds and leaves the log as it is in every other step, whether it is
\* rejected, fails or replies; and it never changes table users.
C34_SendAppendsOneRowOrNone ==
    [][\A w \in Workers :
          (wcmd[w].kind = "send" \/ wcmd'[w].kind = "send") =>
             /\ users' = users
             /\ IF wpc[w] = "insert" /\ wpc'[w] = "reply"
                THEN log' = Append(log, SendRow(wcmd[w].sender, wcmd[w], now))
                ELSE log' = log]_vars

\* a send has written its row, with a floor in table users
C34_Witness ==
    \E w \in Workers :
       /\ wpc[w] = "reply"
       /\ wreply[w].kind = "sent"
       /\ users # {}
       /\ log[Len(log)] = SendRow(wcmd[w].sender, wcmd[w], log[Len(log)].date)

\* C35: the row a send command appends has the sender of the command as
\* its sender, and no step of a command of a sender that is not privileged
\* lowers the balance of any other account.
C35_OnlyOwnBalanceDecreases ==
    [][\A w \in Workers :
          /\ (wpc[w] = "insert" /\ wpc'[w] = "reply") =>
                /\ Len(log') = Len(log) + 1
                /\ log'[Len(log')].sender = wcmd[w].sender
          /\ (wcmd[w].kind # "none" /\ ~is_admin(wcmd[w].sender)) =>
                \A a \in Accounts \ {wcmd[w].sender} :
                   get_balance(log', a) >= get_balance(log, a)]_vars

\* a send of a sender that is not privileged has written its row
C35_Witness ==
    \E w \in Workers :
       /\ wpc[w] = "reply"
       /\ wreply[w].kind = "sent"
       /\ ~is_admin(wcmd[w].sender)
       /\ log[Len(log)].sender = wcmd[w].sender
       /\ log[Len(log)].receiver # wcmd[w].sender

\* the allowance rows of the log to account a
AllowanceRows(a) ==
    {i \in 1..Len(log) : log[i].memo = "allowance" /\ log[i].receiver = a}

\* C36: the allowance is all or nothing: whenever the allowance task of a
\* running process is through with a disbursement (it announces it, or it
\* waits for a later due instant), Charlie has as many allowance rows as
\* Chase, also after an insert of Charlie's row that failed.
C36_AllowanceIsAllOrNothing ==
    (/\ proc = "up"
     /\ \/ spc \in {"announce", "buffer"}
        \/ spc = "sleep" /\ wakeAt > now) =>
       Cardinality(AllowanceRows(Charlie)) = Cardinality(AllowanceRows(Chase))

\* C37: when the row of a send of a negative amount -N by a privileged
\* sender P to account X is written, the balance of X goes down by N, the
\* balance of P goes up by N and no other balance changes.
C37_NegativeSendTakesFromReceiver ==
    [][\A w \in Workers :
          (/\ wpc[w] = "insert" /\ wpc'[w] = "reply"
           /\ is_admin(wcmd[w].sender) /\ wcmd[w].amount < 0) =>
             LET P == wcmd[w].sender
                 X == create_user_id(wcmd[w].arg)
                 N == -wcmd[w].amount
             IN  /\ get_balance(log', X) = get_balance(log, X) - N
                 /\ get_balance(log', P) = get_balance(log, P) + N
                 /\ \A a \in Accounts \ {P, X} :
                       get_balance(log', a) = get_balance(log, a)]_vars

\* a privileged send of a negative amount has written its row
C37_Witness ==
    \E w \in Workers :
       /\ wpc[w] = "reply"
       /\ wreply[w].kind = "sent"
       /\ is_admin(wcmd[w].sender)
       /\ wcmd[w].amount < 0
       /\ get_balance(log, create_user_id(wcmd[w].arg)) < 0

ReadOnly == {"balance", "get min", "ledger"}

\* C38: no step of a balance, get min or ledger command, whether it
\* replies or fails, changes the log or table users.
C38_ReadOnlyCommandsChangeNothing ==
    [][\A w \in Workers :
          (wcmd[w].kind \in ReadOnly \/ wcmd'[w].kind \in ReadOnly) =>
             log' = log /\ users' = users]_vars

\* a read-only command replies on a store with a send row and a floor
C38_Witness ==
    \E w \in Workers :
       /\ wpc[w] = "reply"
       /\ wcmd[w].kind \in ReadOnly
       /\ users # {}
       /\ \E i \in 1..Len(log) : log[i].sender # NoneV

\* C39: under every interleaving of the calls of chat for a room, the
\* first message of the room's context is the developer instruction, and
\* right after the trimming at the end of a chat that got its response
\* the context holds at most ContextLimit messages.
C39_ContextKeepsInstructionAndLimit ==
    /\ [](\A room \in DOMAIN ALL_CONTEXT :
            /\ Len(ALL_CONTEXT[room]) >= 1
            /\ ALL_CONTEXT[room][1] = DeveloperMessage)
    /\ [][\A c \in Callers :
            (calls[c].pc = "cleanup" /\ calls'[c].pc = "idle") =>
               Len(ALL_CONTEXT'[calls[c].room]) <= ContextLimit]_vars

\* the context of a room has been trimmed while other calls for the room
\* were in progress: it is full and the prompt it began with is gone
C39_Witness ==
    \E room \in DOMAIN ALL_CONTEXT :
       /\ Len(ALL_CONTEXT[room]) = ContextLimit
       /\ ALL_CONTEXT[room][2].role = "assistant"
       /\ \E c \in Callers : calls[c].pc = "post" /\ calls[c].room = room

====
